---- MODULE Spec2Model ----
(***************************************************************************)
(* ElectricityMarketEnv (electricity_market.py): a battery that is charged *)
(* and discharged against a demand signal and a price signal.              *)
(*                                                                         *)
(* Quantities (capacity, state of charge, actions, demand, price, reward)  *)
(* are Python floats.  They are modelled as integers that carry a bounded  *)
(* significand: every arithmetic result is rounded to MantBits significant *)
(* bits, ties to even, as IEEE-754 arithmetic does with 53 bits.  The      *)
(* observation is cast to float32, modelled as SingleBits significant bits.*)
(***************************************************************************)
EXTENDS Integers, Sequences, FiniteSets, TLC

(* ------------------------------ bounds --------------------------------- *)
\* significand width of a float (53 in CPython)
MantBits == 4
\* significand width of a float32 (24 in numpy)
SingleBits == 3
\* horizons 1..MaxHorizon are constructed
MaxHorizon == 2
\* number of states of a noise generator
GenPeriod == 2
\* step calls that are made after the clock has passed the horizon
MaxExtraCalls == 2

\* capacities the environment is constructed with
Capacities == {10, 22}
RenderModes == {"console", "debug", "none"}
\* seeds handed to reset; NoSeed is reset(seed=None)
NoSeed == -1
Seeds == {NoSeed, 0}
GenStates == 0 .. (GenPeriod - 1)
\* actions handed to step: both bounds, both sides of them, zero, partial
\* charges and discharges
Actions(cap) == {-(cap + 2), -cap, -5, 0, 3, cap, cap + 2}

(* --------------------------- float arithmetic -------------------------- *)
Min(a, b) == IF a <= b THEN a ELSE b
Max(a, b) == IF a >= b THEN a ELSE b

\* the exponent e for which 2^(p+e-1) <= n < 2^(p+e), 0 when n < 2^p
Exponent(n, p) == CHOOSE e \in 0 .. n : n < 2^(p + e) /\ (e = 0 \/ n >= 2^(p + e - 1))

\* n >= 0 rounded to p significant bits, round-half-to-even
RoundNat(n, p) ==
    LET q  == 2^Exponent(n, p)
        lo == (n \div q) * q
        hi == lo + q
        r  == n - lo
    IN  IF 2 * r < q THEN lo
        ELSE IF 2 * r > q THEN hi
        ELSE IF (lo \div q) % 2 = 0 THEN lo ELSE hi

RoundTo(n, p) == IF n < 0 THEN -RoundNat(-n, p) ELSE RoundNat(n, p)

\* the result of a float operation whose exact value is n
Fl(n) == RoundTo(n, MantBits)

\* np.asarray(..., dtype=np.float32)
F32(n) == RoundTo(n, SingleBits)

(* ------------------------------ signals -------------------------------- *)
\* noise scales of the demand and price wrappers
DEMAND_STD == 1
PRICE_STD == 1

\* the baseline curves: pure functions of the timestep, never below 1
demand_fn(kind, t) == IF kind = "constant" THEN 2 ELSE 1 + (t % 2)
price_fn(kind, t) == IF kind = "constant" THEN 3 ELSE 1 + ((2 * t) % 3)

\* NormalNoiseWrapper: the sample its generator yields in state g, and the
\* generator's state after the draw
Sample(g) == (g % 3) - 1
NextGen(g) == (g + 1) % GenPeriod

\* self.demand(self._timestep) / self.price(self._timestep): the value
EvalDemand(e) ==
    IF e.noisy
    THEN Fl(demand_fn(e.signals, e.timestep) + DEMAND_STD * Sample(e.demand_gen))
    ELSE demand_fn(e.signals, e.timestep)

EvalPrice(e) ==
    IF e.noisy
    THEN Fl(price_fn(e.signals, e.timestep) + PRICE_STD * Sample(e.price_gen))
    ELSE price_fn(e.signals, e.timestep)

\* ... and the environment after the call: a wrapper's generator has advanced
AfterSignals(e) ==
    IF e.noisy
    THEN [e EXCEPT !.demand_gen = NextGen(@), !.price_gen = NextGen(@)]
    ELSE e

(* ---------------------------- the environment -------------------------- *)
\* env: the fields of one ElectricityMarketEnv; result: what its last call
\* handed back; calls: the step calls made with an action inside the bounds
\* since the last reset (or construction); twin: a second, independently
\* constructed environment and what its last call handed back
VARIABLES env, result, calls, twin

vars == <<env, result, calls, twin>>

\* render(): 'none' returns, 'console' prints the state of charge and one
\* evaluation of each signal, 'debug' matches no branch
Render(e) == IF e.render_mode = "console" THEN AfterSignals(e) ELSE e

\* an observation that keeps the float64 values
GetObs_Uncast(e) == <<e.state_of_charge, EvalDemand(e), EvalPrice(e)>>

\* _get_obs()
GetObs(e) == <<F32(e.state_of_charge), F32(EvalDemand(e)), F32(EvalPrice(e))>>

\* what a call handed back: a return value, or the ValueError it raised
NoObs == <<0, 0, 0>>
Returned(op, arg, obs, reward, truncated) ==
    [op |-> op, ok |-> TRUE, arg |-> arg, obs |-> obs, reward |-> reward,
     terminated |-> FALSE, truncated |-> truncated]
Raised(op, arg) ==
    [op |-> op, ok |-> FALSE, arg |-> arg, obs |-> NoObs, reward |-> 0,
     terminated |-> FALSE, truncated |-> FALSE]

\* __init__: the fields after a construction that passed its assertions;
\* gd, gp are the states of the generators of the two fresh wrappers
Construct(capacity, horizon, signals, render_mode, noisy, gd, gp) ==
    Render([capacity |-> capacity, horizon |-> horizon, signals |-> signals,
            render_mode |-> render_mode, noisy |-> noisy,
            timestep |-> 0, state_of_charge |-> 0,
            demand_from_grid |-> <<>>,
            demand_gen |-> IF noisy THEN gd ELSE 0,
            price_gen |-> IF noisy THEN gp ELSE 0])

\* reset() that leaves the clock where the last episode stopped
ResetFields_KeepsClock(e, gd, gp) ==
    [e EXCEPT !.state_of_charge = 0,
              !.demand_from_grid = <<>>,
              !.demand_gen = IF e.noisy THEN gd ELSE 0,
              !.price_gen = IF e.noisy THEN gp ELSE 0]

\* reset(): the fields before the render pass
ResetFields(e, gd, gp) ==
    [e EXCEPT !.state_of_charge = 0,
              !.timestep = 0,
              !.demand_from_grid = <<>>,
              !.demand_gen = IF e.noisy THEN gd ELSE 0,
              !.price_gen = IF e.noisy THEN gp ELSE 0]

\* reset(seed): the seed reaches gymnasium's own generator only; the two
\* wrappers are rebuilt from (fn, scale) and start in states gd, gp
ResetCall(e, seed, gd, gp) ==
    LET e1 == Render(ResetFields(e, gd, gp))
    IN  [env |-> AfterSignals(e1),
         result |-> Returned("reset", seed, GetObs(e1), 0, FALSE)]

\* a clock check that refuses the call made at timestep = horizon
PastHorizon_AtHorizon(e) == e.timestep >= e.horizon

\* the two checks that open step()
BadAction(e, action) == ~(-e.capacity <= action /\ action <= e.capacity)
PastHorizon(e) == e.timestep > e.horizon

\* a step that evaluates the two signals before it validates
Raise_AfterSignals(e, action) ==
    [env |-> AfterSignals(e), result |-> Raised("step", action)]

\* raise ValueError(...)
Raise(e, action) == [env |-> e, result |-> Raised("step", action)]

\* a discharge that is not capped by the charge held
Discharge_Uncapped(e, action) == -action

Discharge(e, action) == Min(e.state_of_charge, -action)
Charge(e, action) == Min(Fl(e.capacity - e.state_of_charge), action)

\* a truncation flag that stays up once the horizon is reached
Truncated_AtOrPast(e) == e.timestep >= e.horizon

\* the truncation flag step returns, on the advanced clock
Truncated(e) == e.timestep = e.horizon

\* a charge branch that logs nothing
ChargeBranch_Unlogged(e, action, demand, price) ==
    LET charge == Min(Fl(e.capacity - e.state_of_charge), action)
    IN  [env |-> [e EXCEPT !.state_of_charge = Fl(@ + charge)],
         reward |-> Fl((-Fl(charge + demand)) * price)]

\* a charge branch whose cost leaves the household demand out
ChargeBranch_DemandUnpaid(e, action, demand, price) ==
    LET charge == Min(Fl(e.capacity - e.state_of_charge), action)
    IN  [env |-> [e EXCEPT !.state_of_charge = Fl(@ + charge),
                           !.demand_from_grid = Append(@, Fl(charge + demand))],
         reward |-> Fl((-charge) * price)]

\* the two branches of step: fields and reward
DischargeBranch(e, action, demand, price) ==
    LET discharge == Discharge(e, action)
    IN  [env |-> [e EXCEPT !.state_of_charge = Fl(@ - discharge),
                           !.demand_from_grid =
                               Append(@, Max(0, Fl(demand - discharge)))],
         reward |-> Fl(Fl(discharge - demand) * price)]

ChargeBranch(e, action, demand, price) ==
    LET charge == Charge(e, action)
    IN  [env |-> [e EXCEPT !.state_of_charge = Fl(@ + charge),
                           !.demand_from_grid = Append(@, Fl(charge + demand))],
         reward |-> Fl((-Fl(charge + demand)) * price)]

\* step(action)
StepCall(e, action) ==
    IF BadAction(e, action) THEN Raise(e, action)
    ELSE IF PastHorizon(e) THEN Raise(e, action)
    ELSE
      LET demand == EvalDemand(e)
          price  == EvalPrice(e)
          e1 == AfterSignals(e)
          br == IF action < 0 THEN DischargeBranch(e1, action, demand, price)
                ELSE ChargeBranch(e1, action, demand, price)
          e2 == Render(br.env)
          e3 == [e2 EXCEPT !.timestep = @ + 1]
      IN  [env |-> AfterSignals(e3),
           result |-> Returned("step", action, GetObs(e3), br.reward, Truncated(e3))]

(* ------------------------------ behaviours ----------------------------- *)
\* the second environment where only one is run
NoTwin == [env |-> Construct(10, 1, "constant", "none", FALSE, 0, 0),
           result |-> Raised("none", 0)]

Init ==
    /\ \E capacity \in Capacities, horizon \in 1 .. MaxHorizon,
          render_mode \in RenderModes, noisy \in BOOLEAN,
          gd \in GenStates, gp \in GenStates :
          env = Construct(capacity, horizon, "periodic", render_mode, noisy, gd, gp)
    /\ result = Raised("none", 0)
    /\ calls = 0
    /\ twin = NoTwin

Reset ==
    \E seed \in Seeds, gd \in GenStates, gp \in GenStates :
       LET r == ResetCall(env, seed, gd, gp)
       IN  /\ env' = r.env
           /\ result' = r.result
           /\ calls' = 0
           /\ UNCHANGED twin

Step ==
    /\ calls < env.horizon + MaxExtraCalls
    /\ \E action \in Actions(env.capacity) :
          LET r == StepCall(env, action)
          IN  /\ env' = r.env
              /\ result' = r.result
              /\ calls' = IF BadAction(env, action) THEN calls ELSE calls + 1
              /\ UNCHANGED twin

Next == Reset \/ Step

Spec == Init /\ [][Next]_vars

(* Two environments constructed independently with identical parameters and *)
(* noisy = True, reset with the same seed and stepped with the same actions. *)
PairInit ==
    /\ \E capacity \in Capacities, horizon \in 1 .. MaxHorizon,
          render_mode \in RenderModes,
          gd \in GenStates, gp \in GenStates, gd2 \in GenStates, gp2 \in GenStates :
          /\ env = Construct(capacity, horizon, "periodic", render_mode, TRUE, gd, gp)
          /\ twin = [env |-> Construct(capacity, horizon, "periodic", render_mode,
                                       TRUE, gd2, gp2),
                     result |-> Raised("none", 0)]
    /\ result = Raised("none", 0)
    /\ calls = 0

PairReset ==
    \E seed \in Seeds \ {NoSeed},
       gd \in GenStates, gp \in GenStates, gd2 \in GenStates, gp2 \in GenStates :
       LET r == ResetCall(env, seed, gd, gp)
           t == ResetCall(twin.env, seed, gd2, gp2)
       IN  /\ env' = r.env
           /\ result' = r.result
           /\ calls' = 0
           /\ twin' = t

PairStep ==
    /\ result.op # "none"
    /\ calls < env.horizon + MaxExtraCalls
    /\ \E action \in Actions(env.capacity) :
          LET r == StepCall(env, action)
              t == StepCall(twin.env, action)
          IN  /\ env' = r.env
              /\ result' = r.result
              /\ calls' = IF BadAction(env, action) THEN calls ELSE calls + 1
              /\ twin' = t

PairNext == PairReset \/ PairStep

PairSpec == PairInit /\ [][PairNext]_vars

(* The deterministic scenario: capacity 10, horizon 3, demand constantly 2, *)
(* price constantly 3, no noise; any calls are made on it.                  *)
ScenarioInit ==
    /\ \E render_mode \in RenderModes :
          env = Construct(10, 3, "constant", render_mode, FALSE, 0, 0)
    /\ result = Raised("none", 0)
    /\ calls = 0
    /\ twin = NoTwin

ScenarioSpec == ScenarioInit /\ [][Next]_vars

(* Construction: ElectricityMarketEnv(...) is called once, with arguments  *)
(* of any kind.                                                             *)
\* arguments handed to the constructor: a value and the type it has
CapacityArgs ==
    {[type |-> "str", value |-> 0]}
        \cup [type : {"int", "float"}, value : {-1, 0} \cup Capacities]
HorizonArgs ==
    {[type |-> "str", value |-> 0]}
        \cup [type : {"int", "float"}, value : -1 .. MaxHorizon]
CtorArgs ==
    [capacity : CapacityArgs, horizon : HorizonArgs,
     demand_callable : BOOLEAN, price_callable : BOOLEAN,
     render_mode : RenderModes \cup {"human"}, noisy : BOOLEAN]

\* no environment: the constructor has not returned one
NoEnv == [constructed |-> FALSE]

\* assertions that let a horizon of zero through
AssertsPass_ZeroHorizon(a) ==
    /\ a.capacity.type \in {"int", "float"}
    /\ a.capacity.value > 0
    /\ a.horizon.type = "int"
    /\ a.horizon.value >= 0
    /\ a.demand_callable
    /\ a.price_callable
    /\ a.render_mode \in RenderModes

\* the seven assertions of __init__, in their order
AssertsPass(a) ==
    /\ a.capacity.type \in {"int", "float"}
    /\ a.capacity.value > 0
    /\ a.horizon.type = "int"
    /\ a.horizon.value > 0
    /\ a.demand_callable
    /\ a.price_callable
    /\ a.render_mode \in RenderModes

\* ElectricityMarketEnv(...): the object, or the AssertionError
ConstructCall(a, gd, gp) ==
    IF AssertsPass(a)
    THEN [env |-> Construct(a.capacity.value, a.horizon.value, "periodic",
                            a.render_mode, a.noisy, gd, gp),
          result |-> Returned("init", a, NoObs, 0, FALSE)]
    ELSE [env |-> NoEnv, result |-> Raised("init", a)]

ConstructInit ==
    /\ env = NoEnv
    /\ result = Raised("none", 0)
    /\ calls = 0
    /\ twin = NoTwin

Build ==
    /\ result.op = "none"
    /\ \E a \in CtorArgs, gd \in GenStates, gp \in GenStates :
          LET r == ConstructCall(a, gd, gp)
          IN  /\ env' = r.env
              /\ result' = r.result
              /\ UNCHANGED <<calls, twin>>

ConstructSpec == ConstructInit /\ [][Build]_vars

(* -------------------------------- claims ------------------------------- *)
\* a step call has just returned normally
StepReturned == result.op = "step" /\ result.ok

\* C1: in every reachable state 0 <= state_of_charge <= capacity.
C1_SocWithinCapacity ==
    0 <= env.state_of_charge /\ env.state_of_charge <= env.capacity

\* C2: in every reachable state 0 <= timestep <= horizon.
C2_ClockWithinHorizon ==
    0 <= env.timestep /\ env.timestep <= env.horizon

\* C3: counting the step calls with a valid action since the last reset (or
\* construction), a step call that returns gives truncated = true exactly
\* when it is the horizon-th call, and never gives terminated = true.
C3_TruncationTiming ==
    StepReturned =>
        /\ result.truncated <=> (calls = env.horizon)
        /\ ~result.terminated

\* C3 witness: the horizon-th call of an episode longer than one step has
\* returned truncated = true.
C3_Witness ==
    /\ StepReturned /\ result.truncated
    /\ calls = env.horizon /\ env.horizon > 1

\* C4: once a step call has returned truncated = true, the next step call
\* made without a reset in between raises, whatever its action.
C4_StepAfterTruncationFails ==
    [][(StepReturned /\ result.truncated /\ result'.op = "step")
          => ~result'.ok]_vars

\* C5: a step call that raises leaves every field of the environment as it
\* was: the clock, the state of charge, the grid-demand log and the states
\* of the two noise generators.
C5_FailedStepKeepsState ==
    [][(result'.op = "step" /\ ~result'.ok) => env' = env]_vars

\* C5 witness: mid-episode, with noisy signals, a step call was rejected.
C5_Witness ==
    /\ result.op = "step" /\ ~result.ok
    /\ env.noisy /\ env.timestep > 0 /\ env.state_of_charge > 0

\* C6: reset leaves timestep = 0, state_of_charge = 0 and an empty
\* grid-demand log, and each of the first horizon step calls with a valid
\* action after it is accepted, the last of them being the one that
\* truncates.
C6_ResetClears ==
    result.op = "reset" =>
        /\ result.ok
        /\ env.timestep = 0
        /\ env.state_of_charge = 0
        /\ env.demand_from_grid = <<>>

C6_EpisodeRunsAgain ==
    (calls < env.horizon /\ result'.op = "step" /\ calls' = calls + 1)
        => /\ result'.ok
           /\ result'.truncated <=> (calls' = env.horizon)

C6_ResetStartsAfresh == []C6_ResetClears /\ [][C6_EpisodeRunsAgain]_vars

\* C6 witness: reset has returned and left a cleared environment.
C6_Witness ==
    /\ result.op = "reset" /\ result.ok
    /\ env.timestep = 0 /\ env.state_of_charge = 0
    /\ env.demand_from_grid = <<>> /\ calls = 0

\* C7: an accepted step with action < 0 discharges min(state_of_charge,
\* -action), which is at most the charge held; the state of charge drops by
\* it, the log gains max(0, demand - discharge) and the reward is
\* (discharge - demand) * price, demand and price being those of the
\* timestep before the clock advances.
C7_DischargeStep ==
    (result'.op = "step" /\ result'.ok /\ result'.arg < 0) =>
        LET action == result'.arg
            demand == EvalDemand(env)
            price == EvalPrice(env)
            discharge == Min(env.state_of_charge, -action)
        IN  /\ discharge <= env.state_of_charge
            /\ env'.state_of_charge = Fl(env.state_of_charge - discharge)
            /\ env'.demand_from_grid =
                   Append(env.demand_from_grid, Max(0, Fl(demand - discharge)))
            /\ result'.reward = Fl(Fl(discharge - demand) * price)
            /\ env'.timestep = env.timestep + 1

C7_Discharge == [][C7_DischargeStep]_vars

\* C7 witness: a discharge command larger than the charge held was accepted
\* and emptied a battery that held charge.
C7_Witness ==
    /\ StepReturned /\ result.arg < 0
    /\ env.state_of_charge = 0
    /\ Len(env.demand_from_grid) > 1
    /\ env.demand_from_grid[Len(env.demand_from_grid)] = 0

\* C8: an accepted step with action >= 0 charges min(capacity -
\* state_of_charge, action), which is at most the headroom; the state of
\* charge rises by it, the log gains charge + demand and the reward is
\* -(charge + demand) * price; step(0) leaves the state of charge as it was
\* and costs demand * price.
C8_ChargeStep ==
    (result'.op = "step" /\ result'.ok /\ result'.arg >= 0) =>
        LET action == result'.arg
            demand == EvalDemand(env)
            price == EvalPrice(env)
            headroom == Fl(env.capacity - env.state_of_charge)
            charge == Min(headroom, action)
        IN  /\ charge <= headroom
            /\ env'.state_of_charge = Fl(env.state_of_charge + charge)
            /\ env'.demand_from_grid =
                   Append(env.demand_from_grid, Fl(charge + demand))
            /\ result'.reward = Fl((-Fl(charge + demand)) * price)
            /\ action = 0 =>
                   /\ env'.state_of_charge = env.state_of_charge
                   /\ result'.reward = Fl((-demand) * price)

C8_Charge == [][C8_ChargeStep]_vars

\* C9: two environments constructed with the same parameters and noisy =
\* true, reset with the same seed and stepped with the same actions, return
\* the same observations and rewards.
C9_SameSeedSameRun ==
    result.ok =>
        /\ twin.result.ok
        /\ result.obs = twin.result.obs
        /\ result.reward = twin.result.reward

\* C10: a render pass leaves the clock, the state of charge, the grid-demand
\* log and the noise generators as they were, in every render mode: a step
\* returns what it returns with render mode none, and leaves the fields it
\* leaves with render mode none.
C10_RenderIsPureRead ==
    [][result'.op = "step" =>
          LET quiet == StepCall([env EXCEPT !.render_mode = "none"], result'.arg)
          IN  /\ result' = quiet.result
              /\ env' = [quiet.env EXCEPT !.render_mode = env.render_mode]]_vars

\* the fields after the calls of the scenario so far
ScenarioAt(t, soc, log) ==
    /\ env.timestep = t
    /\ env.state_of_charge = soc
    /\ env.demand_from_grid = log

\* the next call is step(action) and it returns
ScenarioStep(action) == result'.op = "step" /\ result'.arg = action

\* C11: with capacity 10, horizon 3, demand 2, price 3 and no noise, reset
\* returns (0, 2, 3); then step(-5) returns reward -6, leaves the state of
\* charge 0, logs 2 and does not truncate; step(10) returns reward -36 and
\* leaves the state of charge 10; step(-10) returns reward 24, leaves the
\* state of charge 0 and truncates.
C11_AfterReset ==
    result.op = "reset" => result.ok /\ result.obs = <<0, 2, 3>>

C11_Calls ==
    /\ (ScenarioAt(0, 0, <<>>) /\ ScenarioStep(-5)) =>
           /\ result'.ok /\ result'.reward = -6 /\ ~result'.truncated
           /\ env'.timestep = 1 /\ env'.state_of_charge = 0
           /\ env'.demand_from_grid = <<2>>
    /\ (ScenarioAt(1, 0, <<2>>) /\ ScenarioStep(10)) =>
           /\ result'.ok /\ result'.reward = -36
           /\ env'.timestep = 2 /\ env'.state_of_charge = 10
           /\ env'.demand_from_grid = <<2, 12>>
    /\ (ScenarioAt(2, 10, <<2, 12>>) /\ ScenarioStep(-10)) =>
           /\ result'.ok /\ result'.reward = 24 /\ result'.truncated
           /\ env'.timestep = 3 /\ env'.state_of_charge = 0

C11_Scenario == []C11_AfterReset /\ [][C11_Calls]_vars

\* C11 witness: the third call of the scenario, step(-10), has returned.
C11_Witness ==
    /\ StepReturned /\ result.arg = -10 /\ result.reward = 24 /\ result.truncated
    /\ ScenarioAt(3, 0, <<2, 12, 0>>)

C13_StepCalled ==
    result'.op = "step" =>
        LET action == result'.arg
            outside == action < -env.capacity \/ action > env.capacity
        IN  /\ ~result'.ok <=> (outside \/ env.timestep > env.horizon)
            /\ (env.timestep = env.horizon /\ ~outside) =>
                   /\ result'.ok /\ ~result'.truncated
                   /\ env'.timestep = env.horizon + 1
            /\ env.timestep = env.horizon + 1 =>
                   /\ ~result'.ok
                   /\ env'.timestep = env.horizon + 1

C13_AtMostOneExtraStep ==
    /\ env.timestep <= env.horizon + 1
    /\ (StepReturned /\ result.truncated) => env.timestep = env.horizon

PrevGen(g) == (g + GenPeriod - 1) % GenPeriod

\* the environment e as _get_obs saw it: its last act was one draw from each
\* wrapper
AsObserved(e) ==
    IF e.noisy
    THEN [e EXCEPT !.demand_gen = PrevGen(@), !.price_gen = PrevGen(@)]
    ELSE e

\* the reward of a step with this action, demand and price from the fields e
RewardOf(e, action, demand, price) ==
    IF action < 0
    THEN Fl(Fl(Min(e.state_of_charge, -action) - demand) * price)
    ELSE Fl((-Fl(Min(Fl(e.capacity - e.state_of_charge), action) + demand)) * price)

\* C14 as stated: reset returns the observation (0, demand(0), price(0)); a
\* successful step taken at timestep t returns (state_of_charge after the
\* step, demand(t+1), price(t+1)), and its reward uses demand(t), price(t).
C14_ResetObsExact ==
    (result.op = "reset" /\ result.ok) =>
        /\ env.timestep = 0
        /\ result.obs = <<0, EvalDemand(AsObserved(env)), EvalPrice(AsObserved(env))>>

C14_StepObsExact ==
    (result'.op = "step" /\ result'.ok) =>
        /\ env'.timestep = env.timestep + 1
        /\ result'.obs = <<env'.state_of_charge,
                           EvalDemand(AsObserved(env')),
                           EvalPrice(AsObserved(env'))>>
        /\ result'.reward =
               RewardOf(env, result'.arg, EvalDemand(env), EvalPrice(env))

C14_ObservationExact == []C14_ResetObsExact /\ [][C14_StepObsExact]_vars

\* C14 as amended: the same, each component of the observation being the
\* float32 nearest to the value named.
C14_ResetObs ==
    (result.op = "reset" /\ result.ok) =>
        /\ env.timestep = 0
        /\ result.obs = <<0, F32(EvalDemand(AsObserved(env))),
                          F32(EvalPrice(AsObserved(env)))>>

C14_StepObs ==
    (result'.op = "step" /\ result'.ok) =>
        /\ env'.timestep = env.timestep + 1
        /\ result'.obs = <<F32(env'.state_of_charge),
                           F32(EvalDemand(AsObserved(env'))),
                           F32(EvalPrice(AsObserved(env')))>>
        /\ result'.reward =
               RewardOf(env, result'.arg, EvalDemand(env), EvalPrice(env))

C14_ObservationCast == []C14_ResetObs /\ [][C14_StepObs]_vars

\* C14 witness: a step returned an observation whose first component is not
\* the state of charge it left, and whose demand is not the one its reward
\* used.
C14_Witness ==
    /\ StepReturned
    /\ result.obs[1] # env.state_of_charge
    /\ result.obs[2] # demand_fn(env.signals, env.timestep - 1)
    /\ ~env.noisy

\* s is t with entries appended, or t itself
IsPrefix(t, s) == Len(t) <= Len(s) /\ SubSeq(s, 1, Len(t)) = t

\* C15: in every reachable state the length of the grid-demand log equals
\* timestep, which is the number of step calls that succeeded since the last
\* reset (or construction): a successful step appends one entry and advances
\* the clock by one, a failing step does neither, and only reset removes
\* entries.
C15_LogLengthIsClock ==
    /\ Len(env.demand_from_grid) = env.timestep
    /\ env.timestep = Min(calls, env.horizon + 1)

C15_Call ==
    /\ (result'.op = "step" /\ result'.ok) =>
           /\ Len(env'.demand_from_grid) = Len(env.demand_from_grid) + 1
           /\ env'.timestep = env.timestep + 1
    /\ (result'.op = "step" /\ ~result'.ok) =>
           /\ env'.demand_from_grid = env.demand_from_grid
           /\ env'.timestep = env.timestep
    /\ result'.op = "step" => IsPrefix(env.demand_from_grid, env'.demand_from_grid)
    /\ result'.op = "reset" => env'.demand_from_grid = <<>> /\ env'.timestep = 0

C15_LogTracksClock == []C15_LogLengthIsClock /\ [][C15_Call]_vars

\* C15 witness: two successful steps that left the battery partly charged,
\* and a refused call after them.
C15_Witness ==
    /\ result.op = "step" /\ ~result.ok
    /\ Len(env.demand_from_grid) = 2 /\ env.timestep = 2
    /\ env.state_of_charge > 0 /\ env.state_of_charge < env.capacity

\* C16: the demand and price a successful step uses for its reward are the
\* demand and price components of the observation the previous call (reset
\* or step) returned.
C16_ChargedAsShown ==
    [][(result.ok /\ result'.op = "step" /\ result'.ok) =>
          /\ EvalDemand(env) = result.obs[2]
          /\ EvalPrice(env) = result.obs[3]
          /\ result'.reward =
                 RewardOf(env, result'.arg, result.obs[2], result.obs[3])]_vars

\* C17: with non-negative demand and price, a successful step returns a
\* reward > 0 only if it is a discharge whose discharge exceeds the demand;
\* every charge step and every discharge with discharge <= demand returns a
\* reward <= 0; every grid-demand log entry is >= 0; and the reward is
\* -(logged grid draw) * price except on a discharge with surplus.
C17_Step ==
    (result'.op = "step" /\ result'.ok) =>
        LET action == result'.arg
            demand == EvalDemand(env)
            price == EvalPrice(env)
            discharge == Min(env.state_of_charge, -action)
            surplus == action < 0 /\ discharge > demand
            entry == env'.demand_from_grid[Len(env'.demand_from_grid)]
        IN  /\ demand >= 0 /\ price >= 0
            /\ result'.reward > 0 => surplus
            /\ ~surplus => result'.reward <= 0
            /\ entry >= 0
            /\ ~surplus => result'.reward = Fl((-entry) * price)

C17_RewardSigns == [][C17_Step]_vars

====
